---- MODULE Spec2Model ----
(***************************************************************************)
(* SecureTrace: a React client with a hybrid RSA/AES session handshake, an *)
(* encrypted chat with a simulated echo, a forensic log kept by App, a     *)
(* DLP keyword list and a forensic dashboard.                              *)
(*                                                                         *)
(* State is the React state of App, of the mounted Chat and of the mounted *)
(* Dashboard, plus the asynchronous continuations in flight: every `await` *)
(* and every setTimeout of the source splits a handler into steps, and the *)
(* steps of different handlers interleave.  A continuation of an unmounted *)
(* component keeps running: its setState calls do nothing, its calls to    *)
(* App's handleLogEvent still reach App.                                   *)
(***************************************************************************)
EXTENDS Integers, Sequences, FiniteSets, TLC

(***************************************************************************)
(* Bounds of the model.                                                    *)
(***************************************************************************)
\* External events in a behaviour: the user's operations (a login, a logout,
\* a view switch, a keyword change, a submitted message, an incident report,
\* a dashboard button) and the ticks of the clock.  The continuations they
\* start (awaits resolving, timers firing) are not counted.
MaxEvents == 3
\* Continuations in flight when a user operation that adds to them is admitted.
MaxInFlight == 2

(***************************************************************************)
(* Text.  A string is a sequence of one-character strings.                 *)
(***************************************************************************)
UpperCase == <<"A","B","C","D","E","F","G","H","I","J","K","L","M","N","O","P","Q","R","S","T","U","V","W","X","Y","Z">>
LowerCase == <<"a","b","c","d","e","f","g","h","i","j","k","l","m","n","o","p","q","r","s","t","u","v","w","x","y","z">>

\* String.prototype.toLowerCase
toLowerCase(s) ==
  [i \in 1..Len(s) |->
     IF \E k \in 1..Len(UpperCase) : UpperCase[k] = s[i]
     THEN LowerCase[CHOOSE k \in 1..Len(UpperCase) : UpperCase[k] = s[i]]
     ELSE s[i]]

\* String.prototype.includes
includes(s, sub) ==
  \E i \in 0..(Len(s) - Len(sub)) : SubSeq(s, i + 1, i + Len(sub)) = sub

\* String.prototype.trim
RECURSIVE trim(_)
trim(s) ==
  IF s = <<>> THEN s
  ELSE IF Head(s) = " " THEN trim(Tail(s))
  ELSE IF s[Len(s)] = " " THEN trim(SubSeq(s, 1, Len(s) - 1))
  ELSE s

\* Array.prototype.includes
arrayIncludes(arr, x) == \E i \in 1..Len(arr) : arr[i] = x

(***************************************************************************)
(* Inputs.                                                                 *)
(***************************************************************************)
\* The two accounts of the Login screen.
Users == {"user-001", "user-002"}
NoUser == "null"

\* Texts typed into the chat input: blank, harmless, and one that holds a
\* DLP keyword in another case.
Texts == { <<" ">>, <<"o","k">>, <<"L","e","a","k">> }

\* Texts typed into the Settings keyword input.
KeywordInputs == { <<" ">>, <<" ","O","k"," ">>, <<"L","e","a","k">> }

InitialKeywords ==
  << <<"l","e","a","k">>,
     <<"h","a","c","k">>,
     <<"p","a","s","s","w","o","r","d">>,
     <<"b","r","i","b","e">>,
     <<"c","o","n","f","i","d","e","n","t","i","a","l">>,
     <<"o","f","f"," ","t","h","e"," ","r","e","c","o","r","d">> >>

responses ==
  << <<"I","'","v","e"," ","r","e","c","e","i","v","e","d"," ","t","h","e"," ","d","o","c","u","m","e","n","t","s","."," ","V","e","r","i","f","y","i","n","g"," ","s","i","g","n","a","t","u","r","e","s"," ","n","o","w",".">>,
     <<"U","n","d","e","r","s","t","o","o","d","."," ","E","n","s","u","r","e"," ","t","h","e"," ","l","o","g","s"," ","a","r","e"," ","f","l","u","s","h","e","d"," ","a","f","t","e","r"," ","t","h","e"," ","o","p","e","r","a","t","i","o","n",".">>,
     <<"W","e"," ","n","e","e","d"," ","t","o"," ","b","e"," ","c","a","r","e","f","u","l"," ","w","i","t","h"," ","t","h","i","s"," ","c","h","a","n","n","e","l",".">>,
     <<"C","o","n","f","i","r","m","e","d",".">>,
     <<"C","a","n"," ","y","o","u"," ","s","e","n","d"," ","t","h","e"," ","f","i","n","a","n","c","i","a","l"," ","r","e","p","o","r","t"," ","f","o","r"," ","Q","3","?">> >>

\* Keywords whose X is clicked in Settings.
RemoveInputs == { <<"l","e","a","k">>, <<"o","k">> }

\* The ivs window.crypto.getRandomValues may return.
Ivs == {1}

\* The indexes Math.random() may pick in the echo.
ResponseDraws == {4}

Views == {"chat", "dashboard", "settings"}
NoKey == [kind |-> "null"]

(***************************************************************************)
(* services/crypto.  Web Crypto results are modelled by terms: a digest or *)
(* a ciphertext is the term of its inputs, so two of them are equal only   *)
(* when their inputs are.                                                  *)
(***************************************************************************)
\* hashData: SHA-256 of the data, as hex.
hashData(data) == [sha256 |-> data]

\* Code units of a string that are not letters: a surrogate without its pair,
\* the byte order mark and the replacement character.
LoneSurrogate == "U+D800"
ByteOrderMark == "U+FEFF"
ReplacementCharacter == "U+FFFD"

\* new TextEncoder().encode(message): the UTF-8 bytes, written as the scalar
\* values they encode; a surrogate without its pair is encoded as U+FFFD.
encode(message) ==
  [i \in 1..Len(message) |->
     IF message[i] = LoneSurrogate THEN ReplacementCharacter ELSE message[i]]

\* new TextDecoder().decode(bytes): ignoreBOM is false, so a leading byte
\* order mark is not part of the result.
decode(bytes) ==
  IF Len(bytes) > 0 /\ bytes[1] = ByteOrderMark THEN Tail(bytes) ELSE bytes

\* encryptMessage: AES-GCM under key with the iv drawn by getRandomValues.
encryptMessage(key, iv, message) ==
  [iv |-> iv, ciphertext |-> [aesgcm |-> key, iv |-> iv, plaintext |-> encode(message)]]

\* A string that window.crypto.subtle.encrypt returned, base64-encoded.
sealed(ciphertext) == DOMAIN ciphertext = {"aesgcm", "iv", "plaintext"}

\* Mutant: the tag is not verified and the bytes are decoded whatever the key
\* and the iv.
decryptMessage_unauthenticated(key, ciphertext, iv) ==
  IF "garbled" \in DOMAIN ciphertext
  THEN [error |-> "InvalidCharacterError"]
  ELSE IF sealed(ciphertext)
       THEN [plaintext |-> decode(ciphertext.plaintext)]
       ELSE [plaintext |-> decode(ciphertext.flipped.plaintext)]

\* decryptMessage: atob of both strings, AES-GCM decryption under key and iv,
\* which rejects unless the tag matches, then TextDecoder.
decryptMessage(key, ciphertext, iv) ==
  IF "garbled" \in DOMAIN ciphertext
  THEN [error |-> "InvalidCharacterError"]
  ELSE IF sealed(ciphertext) /\ ciphertext.aesgcm = key /\ ciphertext.iv = iv
       THEN [plaintext |-> decode(ciphertext.plaintext)]
       ELSE [error |-> "OperationError"]

\* ciphertext.length: base64 of the encoded message plus the 16-byte tag.
ciphertextLength(message) == 4 * ((Len(message) + 16 + 2) \div 3)

\* The fingerprint shown for a session: the first 16 hex digits, upper-cased,
\* of the digest of the base64 of the wrapped session key.
fingerprintOf(encryptedSessionKey) ==
  [substring16 |-> hashData([base64 |-> encryptedSessionKey])]

(***************************************************************************)
(* State.                                                                  *)
(***************************************************************************)
VARIABLES
  now,                 \* Date.now()
  user,                \* App: the logged-in user's id, or NoUser
  activeView,          \* App
  logs,                \* App: the forensic log
  suspiciousKeywords,  \* App: the DLP keyword list
  chatId,              \* the mounted Chat instance, 0 when none is mounted
  messages,            \* Chat
  aesKey,              \* Chat
  handshakeStatus,     \* Chat
  sessionFingerprint,  \* Chat
  dashboard,           \* the mounted Dashboard's state, or NoDashboard
  handshakes,          \* initSession runs in flight
  sends,               \* handleSendMessage runs awaiting encryption
  echoTimers,          \* setTimeout callbacks not yet fired
  echoes,              \* echo callbacks awaiting encryption
  pendingLogs,         \* handleLogEvent runs awaiting hashData
  analyses,            \* runAnalysis runs awaiting analyzeLogs
  nChats,              \* Chat instances mounted so far
  logCalls,            \* handleLogEvent calls made so far
  nMessages,           \* messages built so far (crypto.randomUUID)
  events,              \* external events so far
  sendRejected,        \* history: a non-blank send was refused for want of a key
  staleEchoes,         \* history: ids of echo messages built after their Chat was unmounted
  failedChats,         \* history: Chat instances whose initSession reached its catch
  roundTrip            \* a run of the crypto service on its own

appVars == <<user, activeView, suspiciousKeywords>>
chatVars == <<chatId, messages, aesKey, handshakeStatus, sessionFingerprint>>
taskVars == <<handshakes, sends, echoTimers, echoes, analyses>>
logVars == <<logs, pendingLogs, logCalls>>
history == <<sendRejected, staleEchoes, failedChats>>
vars == <<now, appVars, chatVars, dashboard, taskVars, logVars, nChats, nMessages, events, history,
          roundTrip>>

NoDashboard == [mounted |-> FALSE]
\* Dashboard's useState defaults.
FreshDashboard ==
  [mounted |-> TRUE, analysis |-> [kind |-> "null"], analyzing |-> FALSE,
   integrityStatus |-> "unknown"]

\* No run of the crypto service on its own is under way.
NoRoundTrip == [pc |-> "none"]

\* App before anything has happened.
AppInit ==
  /\ now = 0
  /\ user = NoUser
  /\ activeView = "chat"
  /\ logs = <<>>
  /\ suspiciousKeywords = InitialKeywords
  /\ chatId = 0
  /\ messages = <<>>
  /\ aesKey = NoKey
  /\ handshakeStatus = "Initializing..."
  /\ sessionFingerprint = <<>>
  /\ dashboard = NoDashboard
  /\ handshakes = {}
  /\ sends = {}
  /\ echoTimers = {}
  /\ echoes = {}
  /\ pendingLogs = {}
  /\ analyses = {}
  /\ nChats = 0
  /\ logCalls = 0
  /\ nMessages = 0
  /\ events = 0
  /\ sendRejected = FALSE
  /\ staleEchoes = {}
  /\ failedChats = {}

Init == AppInit /\ roundTrip = NoRoundTrip

\* A user operation that starts k continuations needs room for them.
InFlight ==
  Cardinality(pendingLogs) + Cardinality(handshakes) + Cardinality(sends)
    + Cardinality(echoTimers) + Cardinality(echoes) + Cardinality(analyses)

room(k) == InFlight + k <= MaxInFlight

\* An external event is admitted while the bound allows.
external ==
  /\ events < MaxEvents
  /\ events' = events + 1

\* The clock advances.
Tick ==
  /\ external
  /\ now' = now + 1
  /\ UNCHANGED <<roundTrip, appVars, chatVars, dashboard, taskVars, logVars, nChats, nMessages, history>>

(***************************************************************************)
(* App.handleLogEvent.  The call computes the payload with one Date.now()  *)
(* and awaits its digest; the continuation stamps the entry with a second  *)
(* Date.now() and appends it.                                              *)
(***************************************************************************)
\* JSON.stringify({ type, metadata, timestamp, userId })
payloadOf(type, metadata, timestamp, userId) ==
  [type |-> type, metadata |-> metadata, timestamp |-> timestamp, userId |-> userId]

\* A call suspended at `await hashData(payload)`: its arguments, the payload
\* built with the Date.now() of the call, and the length of the `logs` its
\* closure saw.
pendingOf(call, type, metadata, severity, targetUserId, calledAt, rendered) ==
  [call |-> call, type |-> type, metadata |-> metadata, severity |-> severity,
   targetUserId |-> targetUserId,
   payload |-> payloadOf(type, metadata, calledAt, targetUserId), rendered |-> rendered]

\* Up to the await: closureUser is the `user` of the render that made the
\* handleLogEvent being called.
handleLogEvent(type, metadata, severity, userIdOverride, closureUser) ==
  LET targetUserId ==
        IF userIdOverride # NoUser THEN userIdOverride
        ELSE IF closureUser # NoUser THEN closureUser
        ELSE "unknown"
  IN /\ pendingLogs' = pendingLogs \cup
          {pendingOf(logCalls + 1, type, metadata, severity, targetUserId, now, Len(logs))}
     /\ logCalls' = logCalls + 1

\* Mutant: the entry is stamped with the Date.now() of the payload.
newLogOf_payloadTime(p, resumedAt) ==
  [id |-> p.call, timestamp |-> p.payload.timestamp, userId |-> p.targetUserId,
   eventType |-> p.type, metadata |-> p.metadata, severity |-> p.severity,
   hash |-> hashData(p.payload)]

\* The entry built after the await, at time resumedAt; p.call stands for
\* crypto.randomUUID().
newLogOf(p, resumedAt) ==
  [id |-> p.call, timestamp |-> resumedAt, userId |-> p.targetUserId,
   eventType |-> p.type, metadata |-> p.metadata, severity |-> p.severity,
   hash |-> hashData(p.payload)]

\* Mutant: setLogs([...logs, newLog]) with the `logs` of the call's closure.
setLogs_stale(prev, p, newLog) == Append(SubSeq(prev, 1, p.rendered), newLog)

\* setLogs(prev => [...prev, newLog])
setLogs(prev, p, newLog) == Append(prev, newLog)

\* After the await.
handleLogEvent_resume(p) ==
  /\ p \in pendingLogs
  /\ pendingLogs' = pendingLogs \ {p}
  /\ logs' = setLogs(logs, p, newLogOf(p, now))
  /\ UNCHANGED <<roundTrip, now, appVars, chatVars, dashboard, taskVars, logCalls, nChats, nMessages, history, events>>

(***************************************************************************)
(* What App renders: Login without a user, else the active view.  A view   *)
(* that leaves the screen is unmounted and its state dropped; one that     *)
(* enters is mounted with its useState defaults, and a mounted Chat starts *)
(* its handshake effect.                                                   *)
(***************************************************************************)
chatShown(u, v) == u # NoUser /\ v = "chat"
dashboardShown(u, v) == u # NoUser /\ v = "dashboard"

render(u, v) ==
  /\ IF chatShown(u, v) /\ ~chatShown(user, activeView)
     THEN /\ nChats' = nChats + 1
          /\ chatId' = nChats + 1
          /\ handshakes' = handshakes \cup {[chat |-> nChats + 1, uid |-> u, pc |-> "start"]}
          /\ UNCHANGED <<messages, aesKey, handshakeStatus, sessionFingerprint>>
     ELSE IF ~chatShown(u, v) /\ chatShown(user, activeView)
     THEN /\ chatId' = 0
          /\ messages' = <<>>
          /\ aesKey' = NoKey
          /\ handshakeStatus' = "Initializing..."
          /\ sessionFingerprint' = <<>>
          /\ UNCHANGED <<nChats, handshakes>>
     ELSE UNCHANGED <<nChats, chatVars, handshakes>>
  /\ IF dashboardShown(u, v) /\ ~dashboardShown(user, activeView)
     THEN /\ dashboard' = FreshDashboard
          /\ UNCHANGED analyses
     ELSE IF ~dashboardShown(u, v) /\ dashboardShown(user, activeView)
     THEN /\ dashboard' = NoDashboard
          /\ analyses' = {}
     ELSE UNCHANGED <<dashboard, analyses>>

\* App.handleLogin, called by the Login screen with the chosen account.
handleLogin(loggedInUser) ==
  /\ user = NoUser
  /\ external
  /\ room(2)
  /\ user' = loggedInUser
  /\ handleLogEvent("LOGIN", [method |-> "PASSWORD", status |-> "SUCCESS"], "INFO",
                    loggedInUser, user)
  /\ render(loggedInUser, activeView)
  /\ UNCHANGED <<roundTrip, now, activeView, suspiciousKeywords, logs, sends, echoTimers, echoes,
                 nMessages, history>>

\* Mutant: the logout also empties the log.
handleLogout_clearsLogs ==
  /\ user # NoUser
  /\ external
  /\ room(1)
  /\ handleLogEvent("LOGOUT", [status |-> "SUCCESS"], "INFO", NoUser, user)
  /\ logs' = <<>>
  /\ user' = NoUser
  /\ activeView' = "chat"
  /\ render(NoUser, "chat")
  /\ UNCHANGED <<roundTrip, now, suspiciousKeywords, sends, echoTimers, echoes, nMessages, history>>

\* App.handleLogout, the sidebar's logout button.
handleLogout ==
  /\ user # NoUser
  /\ external
  /\ room(1)
  /\ handleLogEvent("LOGOUT", [status |-> "SUCCESS"], "INFO", NoUser, user)
  /\ user' = NoUser
  /\ activeView' = "chat"
  /\ render(NoUser, "chat")
  /\ UNCHANGED <<roundTrip, now, suspiciousKeywords, logs, sends, echoTimers, echoes, nMessages, history>>

\* The sidebar's three view buttons.
setActiveView(v) ==
  /\ user # NoUser
  /\ v # activeView
  /\ external
  /\ v = "chat" => room(1)
  /\ activeView' = v
  /\ render(user, v)
  /\ UNCHANGED <<roundTrip, now, user, suspiciousKeywords, logVars, sends, echoTimers, echoes,
                 nMessages, history>>

\* Mutant: Settings hands the text over as it was typed.
addKeyword_asTyped(newKeyword) ==
  /\ user # NoUser /\ activeView = "settings"
  /\ trim(newKeyword) # <<>>
  /\ ~arrayIncludes(suspiciousKeywords, newKeyword)
  /\ external
  /\ room(1)
  /\ suspiciousKeywords' = Append(suspiciousKeywords, newKeyword)
  /\ handleLogEvent("ANOMALY_DETECTED", [action |-> "DLP_RULE_ADDED", keyword |-> newKeyword],
                    "INFO", NoUser, user)
  /\ UNCHANGED <<roundTrip, now, user, activeView, logs, chatVars, dashboard, taskVars, nChats,
                 nMessages, history>>

\* Settings.handleAdd and App.addKeyword.
addKeyword(newKeyword) ==
  LET keyword == toLowerCase(trim(newKeyword)) IN
  /\ user # NoUser /\ activeView = "settings"
  /\ trim(newKeyword) # <<>>
  /\ ~arrayIncludes(suspiciousKeywords, keyword)
  /\ external
  /\ room(1)
  /\ suspiciousKeywords' = Append(suspiciousKeywords, keyword)
  /\ handleLogEvent("ANOMALY_DETECTED", [action |-> "DLP_RULE_ADDED", keyword |-> keyword],
                    "INFO", NoUser, user)
  /\ UNCHANGED <<roundTrip, now, user, activeView, logs, chatVars, dashboard, taskVars, nChats,
                 nMessages, history>>

\* Mutant: the removal is logged with the default severity.
removeKeyword_defaultSeverity(keyword) ==
  LET differs(k) == k # keyword IN
  /\ user # NoUser /\ activeView = "settings"
  /\ arrayIncludes(suspiciousKeywords, keyword)
  /\ external
  /\ room(1)
  /\ suspiciousKeywords' = SelectSeq(suspiciousKeywords, differs)
  /\ handleLogEvent("ANOMALY_DETECTED", [action |-> "DLP_RULE_REMOVED", keyword |-> keyword],
                    "INFO", NoUser, user)
  /\ UNCHANGED <<roundTrip, now, user, activeView, logs, chatVars, dashboard, taskVars, nChats,
                 nMessages, history>>

\* The X next to a keyword in Settings, and App.removeKeyword.
removeKeyword(keyword) ==
  LET differs(k) == k # keyword IN
  /\ user # NoUser /\ activeView = "settings"
  /\ arrayIncludes(suspiciousKeywords, keyword)
  /\ external
  /\ room(1)
  /\ suspiciousKeywords' = SelectSeq(suspiciousKeywords, differs)
  /\ handleLogEvent("ANOMALY_DETECTED", [action |-> "DLP_RULE_REMOVED", keyword |-> keyword],
                    "WARNING", NoUser, user)
  /\ UNCHANGED <<roundTrip, now, user, activeView, logs, chatVars, dashboard, taskVars, nChats,
                 nMessages, history>>

(***************************************************************************)
(* Chat: the handshake effect (initSession).  Its awaits are grouped by    *)
(* the status shown while they run; a rejected await goes to the catch.    *)
(***************************************************************************)
\* generateKeyPair: a fresh pair per run.
rsaPairOf(h) ==
  [publicKey |-> [rsa |-> h.chat, type |-> "public"],
   privateKey |-> [rsa |-> h.chat, type |-> "private"]]

\* generateAESKey: a fresh key per run.
sessionKeyRawOf(h) == [kind |-> "AES-GCM", key |-> h.chat]

\* exportKey, importAESKey: the raw bytes of a key, and the key of raw bytes.
exportKey(key) == [raw |-> key.key]
importAESKey(raw) == [kind |-> "AES-GCM", key |-> raw.raw]

\* encryptRSA, decryptRSA (RSA-OAEP).
encryptRSA(publicKey, data) == [oaep |-> publicKey.rsa, data |-> data]
\* Mutant: the bytes returned are not the bytes that were wrapped.
decryptRSA_otherBytes(privateKey, wrapped) ==
  IF wrapped.oaep = privateKey.rsa THEN [raw |-> wrapped.data.raw + 1]
  ELSE [raw |-> "OperationError"]

decryptRSA(privateKey, wrapped) ==
  IF wrapped.oaep = privateKey.rsa THEN wrapped.data ELSE [raw |-> "OperationError"]

\* The session key of a run wrapped under the run's public key (lines 177-179).
encryptedSessionKeyOf(h) ==
  encryptRSA(rsaPairOf(h).publicKey, exportKey(sessionKeyRawOf(h)))

\* Mutant: the fingerprint logged is taken from the session key's own bytes.
keyExchangeOf_keyBytes(h) ==
  [mechanism |-> "HYBRID RSA-2048/AES-256",
   rsaKeyFingerprint |-> fingerprintOf(exportKey(sessionKeyRawOf(h))), status |-> "SUCCESS"]

\* The KEY_EXCHANGE event's metadata (lines 196-200).
keyExchangeOf(h) ==
  [mechanism |-> "HYBRID RSA-2048/AES-256",
   rsaKeyFingerprint |-> fingerprintOf(encryptedSessionKeyOf(h)), status |-> "SUCCESS"]

\* The calls awaited under each status.
AwaitedAt(pc) ==
  CASE pc = "generateKeyPair" -> {"generateKeyPair"}
    [] pc = "negotiate" -> {"generateAESKey", "exportKey", "encryptRSA"}
    [] pc = "decrypt" -> {"decryptRSA", "importAESKey", "hashData"}
    [] OTHER -> {}

setHandshakeStatus(h, status) ==
  handshakeStatus' = IF chatId = h.chat THEN status ELSE handshakeStatus

moveTo(h, pc) == handshakes' = (handshakes \ {h}) \cup {[h EXCEPT !.pc = pc]}

\* The effect runs after the mount: lines 166-170, up to the first await.
initSession_start(h) ==
  /\ h \in handshakes /\ h.pc = "start"
  /\ setHandshakeStatus(h, "Generating RSA Keypair...")
  /\ moveTo(h, "generateKeyPair")
  /\ UNCHANGED <<roundTrip, now, appVars, chatId, messages, aesKey, sessionFingerprint, dashboard,
                 sends, echoTimers, echoes, analyses, logVars, nChats, nMessages, history, events>>

\* generateKeyPair resolved: lines 172-174.
initSession_keyPair(h) ==
  /\ h \in handshakes /\ h.pc = "generateKeyPair"
  /\ setHandshakeStatus(h, "Negotiating Session Key...")
  /\ moveTo(h, "negotiate")
  /\ UNCHANGED <<roundTrip, now, appVars, chatId, messages, aesKey, sessionFingerprint, dashboard,
                 sends, echoTimers, echoes, analyses, logVars, nChats, nMessages, history, events>>

\* Mutant: the status of the previous step is set again.
initSession_wrapped_backward(h) ==
  /\ h \in handshakes /\ h.pc = "negotiate"
  /\ setHandshakeStatus(h, "Generating RSA Keypair...")
  /\ moveTo(h, "decrypt")
  /\ UNCHANGED <<roundTrip, now, appVars, chatId, messages, aesKey, sessionFingerprint, dashboard,
                 sends, echoTimers, echoes, analyses, logVars, nChats, nMessages, history, events>>

\* Mutant: the generated session key is installed before it is unwrapped.
initSession_wrapped_keyEarly(h) ==
  /\ h \in handshakes /\ h.pc = "negotiate"
  /\ setHandshakeStatus(h, "Decrypting Session Key...")
  /\ aesKey' = IF chatId = h.chat THEN sessionKeyRawOf(h) ELSE aesKey
  /\ moveTo(h, "decrypt")
  /\ UNCHANGED <<roundTrip, now, appVars, chatId, messages, sessionFingerprint, dashboard,
                 sends, echoTimers, echoes, analyses, logVars, nChats, nMessages, history, events>>

\* generateAESKey, exportKey and encryptRSA resolved: lines 177-182.
initSession_wrapped(h) ==
  /\ h \in handshakes /\ h.pc = "negotiate"
  /\ setHandshakeStatus(h, "Decrypting Session Key...")
  /\ moveTo(h, "decrypt")
  /\ UNCHANGED <<roundTrip, now, appVars, chatId, messages, aesKey, sessionFingerprint, dashboard,
                 sends, echoTimers, echoes, analyses, logVars, nChats, nMessages, history, events>>

\* Mutant: the setters reach whichever Chat is on the screen.
initSession_secure_anyChat(h) ==
  LET rsaPair == rsaPairOf(h)
      encryptedSessionKey == encryptedSessionKeyOf(h)
      decryptedSessionKeyRaw == decryptRSA(rsaPair.privateKey, encryptedSessionKey)
      finalAesKey == importAESKey(decryptedSessionKeyRaw)
      fingerprint == fingerprintOf(encryptedSessionKey)
      mounted == chatId # 0
  IN
  /\ h \in handshakes /\ h.pc = "decrypt"
  /\ sessionFingerprint' = IF mounted THEN fingerprint ELSE sessionFingerprint
  /\ aesKey' = IF mounted THEN finalAesKey ELSE aesKey
  /\ handshakeStatus' = IF mounted THEN "Secure" ELSE handshakeStatus
  /\ handleLogEvent("KEY_EXCHANGE", keyExchangeOf(h), "INFO", NoUser, h.uid)
  /\ messages' = IF mounted
                 THEN << [id |-> "sys-1", senderId |-> "system",
                          content |-> "Secure Hybrid Channel Established. RSA Handshake Verified.",
                          encryptedContent |-> <<>>, timestamp |-> now,
                          integrityHash |-> <<>>, isSystem |-> TRUE] >>
                 ELSE messages
  /\ handshakes' = handshakes \ {h}
  /\ UNCHANGED <<roundTrip, now, appVars, chatId, dashboard, sends, echoTimers, echoes, analyses,
                 logs, nChats, nMessages, history, events>>

\* Mutant: the welcome message throws inside the try, and the catch runs
\* after KEY_EXCHANGE was logged.
initSession_secure_thenCatch(h) ==
  LET rsaPair == rsaPairOf(h)
      encryptedSessionKey == encryptedSessionKeyOf(h)
      decryptedSessionKeyRaw == decryptRSA(rsaPair.privateKey, encryptedSessionKey)
      finalAesKey == importAESKey(decryptedSessionKeyRaw)
      fingerprint == fingerprintOf(encryptedSessionKey)
      mounted == chatId = h.chat
  IN
  /\ h \in handshakes /\ h.pc = "decrypt"
  /\ sessionFingerprint' = IF mounted THEN fingerprint ELSE sessionFingerprint
  /\ aesKey' = IF mounted THEN finalAesKey ELSE aesKey
  /\ setHandshakeStatus(h, "Handshake Failed")
  /\ pendingLogs' = pendingLogs \cup
       {pendingOf(logCalls + 1, "KEY_EXCHANGE", keyExchangeOf(h), "INFO", h.uid, now, Len(logs)),
        pendingOf(logCalls + 2, "ANOMALY_DETECTED", [error |-> "RSA Key Exchange Failed"],
                  "CRITICAL", h.uid, now, Len(logs))}
  /\ logCalls' = logCalls + 2
  /\ handshakes' = handshakes \ {h}
  /\ UNCHANGED <<roundTrip, now, appVars, chatId, messages, dashboard, sends, echoTimers, echoes,
                 analyses, logs, nChats, nMessages, history, events>>

\* decryptRSA, importAESKey and hashData resolved: lines 183-207.
initSession_secure(h) ==
  LET rsaPair == rsaPairOf(h)
      encryptedSessionKey == encryptedSessionKeyOf(h)
      decryptedSessionKeyRaw == decryptRSA(rsaPair.privateKey, encryptedSessionKey)
      finalAesKey == importAESKey(decryptedSessionKeyRaw)
      fingerprint == fingerprintOf(encryptedSessionKey)
      mounted == chatId = h.chat
  IN
  /\ h \in handshakes /\ h.pc = "decrypt"
  /\ sessionFingerprint' = IF mounted THEN fingerprint ELSE sessionFingerprint
  /\ aesKey' = IF mounted THEN finalAesKey ELSE aesKey
  /\ setHandshakeStatus(h, "Secure")
  /\ handleLogEvent("KEY_EXCHANGE", keyExchangeOf(h), "INFO", NoUser, h.uid)
  /\ messages' = IF mounted
                 THEN << [id |-> "sys-1", senderId |-> "system",
                          content |-> "Secure Hybrid Channel Established. RSA Handshake Verified.",
                          encryptedContent |-> <<>>, timestamp |-> now,
                          integrityHash |-> <<>>, isSystem |-> TRUE] >>
                 ELSE messages
  /\ handshakes' = handshakes \ {h}
  /\ UNCHANGED <<roundTrip, now, appVars, chatId, dashboard, sends, echoTimers, echoes, analyses,
                 logs, nChats, nMessages, history, events>>

\* Mutant: the catch shows the failure and logs nothing.
initSession_catch_unlogged(h, rejected) ==
  /\ h \in handshakes /\ rejected \in AwaitedAt(h.pc)
  /\ setHandshakeStatus(h, "Handshake Failed")
  /\ handshakes' = handshakes \ {h}
  /\ failedChats' = failedChats \cup {h.chat}
  /\ UNCHANGED <<roundTrip, now, appVars, chatId, messages, aesKey, sessionFingerprint, dashboard,
                 sends, echoTimers, echoes, analyses, logVars, nChats, nMessages, sendRejected,
                 staleEchoes, events>>

\* Mutant: the catch starts the handshake again.
initSession_catch_retry(h, rejected) ==
  /\ h \in handshakes /\ rejected \in AwaitedAt(h.pc)
  /\ setHandshakeStatus(h, "Generating RSA Keypair...")
  /\ moveTo(h, "generateKeyPair")
  /\ UNCHANGED <<roundTrip, now, appVars, chatId, messages, aesKey, sessionFingerprint, dashboard,
                 sends, echoTimers, echoes, analyses, logVars, nChats, nMessages, history, events>>

\* An awaited call rejected: the catch, lines 208-212.
initSession_catch(h, rejected) ==
  /\ h \in handshakes /\ rejected \in AwaitedAt(h.pc)
  /\ setHandshakeStatus(h, "Handshake Failed")
  /\ handleLogEvent("ANOMALY_DETECTED", [error |-> "RSA Key Exchange Failed"],
                    "CRITICAL", NoUser, h.uid)
  /\ handshakes' = handshakes \ {h}
  /\ failedChats' = failedChats \cup {h.chat}
  /\ UNCHANGED <<roundTrip, now, appVars, chatId, messages, aesKey, sessionFingerprint, dashboard,
                 sends, echoTimers, echoes, analyses, logs, nChats, nMessages, sendRejected,
                 staleEchoes, events>>

(***************************************************************************)
(* Chat: sending, the echo, the incident report.                           *)
(***************************************************************************)
\* Mutant: the scan compares the plaintext as typed.
detectedKeywordsOf_caseSensitive(content) ==
  LET found(kw) == includes(content, kw)
  IN SelectSeq(suspiciousKeywords, found)

\* Mutant: the scan reads the list the application starts with.
detectedKeywordsOf_initialList(content) ==
  LET found(kw) == includes(toLowerCase(content), kw)
  IN SelectSeq(InitialKeywords, found)

\* suspiciousKeywords.filter(kw => content.toLowerCase().includes(kw))
detectedKeywordsOf(content) ==
  LET found(kw) == includes(toLowerCase(content), kw)
  IN SelectSeq(suspiciousKeywords, found)

\* Mutant: the guard forgets the session key.
sendRefused_blankOnly(inputText) == trim(inputText) = <<>>

\* if (!inputText.trim() || !aesKey) return;
sendRefused(inputText) == trim(inputText) = <<>> \/ aesKey = NoKey

\* The form is submitted with inputText in the box: up to the first await.
handleSendMessage(inputText) ==
  /\ chatId # 0
  /\ IF sendRefused(inputText)
     THEN /\ sendRejected' = (sendRejected \/ (trim(inputText) # <<>> /\ aesKey = NoKey))
          /\ UNCHANGED <<roundTrip, now, appVars, chatVars, dashboard, taskVars, logVars, nChats,
                         nMessages, events, staleEchoes, failedChats>>
     ELSE LET content == inputText
              detectedKeywords == detectedKeywordsOf(content)
          IN
          /\ external
          /\ room(IF Len(detectedKeywords) > 0 THEN 2 ELSE 1)
          /\ IF Len(detectedKeywords) > 0
             THEN handleLogEvent("SUSPICIOUS_KEYWORD",
                                 [keywords |-> detectedKeywords, length |-> Len(content)],
                                 "WARNING", NoUser, user)
             ELSE UNCHANGED <<pendingLogs, logCalls>>
          /\ \E iv \in Ivs :
               sends' = sends \cup
                 {[id |-> nMessages + 1, chat |-> chatId, uid |-> user, aesKey |-> aesKey,
                   content |-> content, iv |-> iv]}
          /\ nMessages' = nMessages + 1
          /\ UNCHANGED <<roundTrip, now, appVars, chatVars, dashboard, handshakes, echoTimers, echoes,
                         analyses, logs, nChats, history>>

\* Mutant: the digest is taken of the envelope, the iv included.
newMessageOf_hashesEnvelope(s, senderId) ==
  LET enc == encryptMessage(s.aesKey, s.iv, s.content)
  IN [id |-> s.id, senderId |-> senderId, content |-> s.content,
      encryptedContent |-> <<enc.iv, enc.ciphertext>>, timestamp |-> now,
      integrityHash |-> hashData(<<enc.iv, enc.ciphertext>>), isSystem |-> FALSE]

\* The message built once encryptMessage and hashData have resolved.
newMessageOf(s, senderId) ==
  LET enc == encryptMessage(s.aesKey, s.iv, s.content)
  IN [id |-> s.id, senderId |-> senderId, content |-> s.content,
      encryptedContent |-> <<enc.iv, enc.ciphertext>>, timestamp |-> now,
      integrityHash |-> hashData(enc.ciphertext), isSystem |-> FALSE]

\* setMessages(prev => [...prev, message]) of the Chat instance that made it.
setMessages(chat, message) ==
  messages' = IF chatId = chat THEN Append(messages, message) ELSE messages

\* After the awaits: lines 246-282.
handleSendMessage_resume(s) ==
  LET newMessage == newMessageOf(s, s.uid) IN
  /\ s \in sends
  /\ setMessages(s.chat, newMessage)
  /\ handleLogEvent("MESSAGE_SENT",
                    [msgId |-> newMessage.id, size |-> ciphertextLength(s.content),
                     hash |-> newMessage.integrityHash],
                    "INFO", NoUser, s.uid)
  /\ echoTimers' = echoTimers \cup
       {[after |-> s.id, chat |-> s.chat, uid |-> s.uid, aesKey |-> s.aesKey]}
  /\ sends' = sends \ {s}
  /\ UNCHANGED <<roundTrip, now, appVars, chatId, aesKey, handshakeStatus, sessionFingerprint,
                 dashboard, handshakes, echoes, analyses, logs, nChats, nMessages, history, events>>

\* The setTimeout callback fires: lines 260-268, up to the first await.
echo_fire(t) ==
  /\ t \in echoTimers
  /\ \E r \in ResponseDraws, iv \in Ivs :
       echoes' = echoes \cup
         {[id |-> nMessages + 1, chat |-> t.chat, uid |-> t.uid, aesKey |-> t.aesKey,
           content |-> responses[r], iv |-> iv]}
  /\ nMessages' = nMessages + 1
  /\ echoTimers' = echoTimers \ {t}
  /\ staleEchoes' = IF chatId = t.chat THEN staleEchoes ELSE staleEchoes \cup {nMessages + 1}
  /\ UNCHANGED <<roundTrip, now, appVars, chatVars, dashboard, handshakes, sends, analyses, logVars,
                 nChats, sendRejected, failedChats, events>>

\* Mutant: the echo is shown and not logged.
echo_resume_unlogged(e) ==
  LET responseMsg == newMessageOf(e, "remote-user") IN
  /\ e \in echoes
  /\ setMessages(e.chat, responseMsg)
  /\ echoes' = echoes \ {e}
  /\ UNCHANGED <<roundTrip, now, appVars, chatId, aesKey, handshakeStatus, sessionFingerprint,
                 dashboard, handshakes, sends, echoTimers, analyses, logVars, nChats,
                 nMessages, history, events>>

\* After the callback's awaits: lines 269-281.
echo_resume(e) ==
  LET responseMsg == newMessageOf(e, "remote-user") IN
  /\ e \in echoes
  /\ setMessages(e.chat, responseMsg)
  /\ handleLogEvent("MESSAGE_DECRYPTED", [msgId |-> responseMsg.id, status |-> "SUCCESS"],
                    "INFO", NoUser, e.uid)
  /\ echoes' = echoes \ {e}
  /\ UNCHANGED <<roundTrip, now, appVars, chatId, aesKey, handshakeStatus, sessionFingerprint,
                 dashboard, handshakes, sends, echoTimers, analyses, logs, nChats,
                 nMessages, history, events>>

\* The warning button of the chat header; confirmed is confirm()'s answer.
handleReportIncident(confirmed) ==
  /\ chatId # 0
  /\ IF confirmed
     THEN /\ external
          /\ room(1)
          /\ handleLogEvent("ANOMALY_DETECTED",
                            [type |-> "USER_REPORTED_INCIDENT",
                             reason |-> "User suspected compromise",
                             sessionFingerprint |-> sessionFingerprint],
                            "CRITICAL", NoUser, user)
     ELSE UNCHANGED <<pendingLogs, logCalls, events>>
  /\ UNCHANGED <<roundTrip, now, appVars, chatVars, dashboard, taskVars, logs, nChats, nMessages,
                 history>>

(***************************************************************************)
(* Dashboard.                                                              *)
(***************************************************************************)
\* The "Verify Chain Integrity" button.
verifyIntegrity ==
  /\ dashboard.mounted
  /\ external
  /\ dashboard' = [dashboard EXCEPT !.integrityStatus = "verified"]
  /\ UNCHANGED <<roundTrip, now, appVars, chatVars, taskVars, logVars, nChats, nMessages, history>>

\* What ai.models.generateContent may do.
GeminiResponses ==
  { [kind |-> "rejects"],
    [kind |-> "text", text |-> [kind |-> "empty"]],
    [kind |-> "text", text |-> [kind |-> "malformed"]],
    [kind |-> "text",
     text |-> [kind |-> "json",
               value |-> [score |-> 85, summary |-> "remote summary",
                          anomalies |-> <<>>, riskFactors |-> <<>>]]],
    [kind |-> "text",
     text |-> [kind |-> "json",
               value |-> [score |-> 250, summary |-> "remote summary",
                          anomalies |-> <<>>, riskFactors |-> <<>>]]],
    [kind |-> "text",
     text |-> [kind |-> "json", value |-> [summary |-> "remote summary"]]] }

\* logSummary: what analyzeLogs hands to generateContent, one item per entry.
logSummaryOf(chain) ==
  [i \in 1..Len(chain) |->
     [time |-> [iso |-> chain[i].timestamp], type |-> chain[i].eventType,
      severity |-> chain[i].severity, metadata |-> chain[i].metadata,
      hash |-> [substring8 |-> chain[i].hash]]]

\* services/gemini.analyzeLogs, given the collaborator's response.
analyzeLogs(response) ==
  IF response.kind = "text" /\ response.text.kind = "json"
  THEN response.text.value
  ELSE [score |-> 0, summary |-> "Automated analysis failed. Manual review required.",
        anomalies |-> <<"Analysis service unavailable">>, riskFactors |-> <<>>]

\* The "Run Analysis" button (disabled while analyzing): up to the await.
runAnalysis ==
  /\ dashboard.mounted /\ ~dashboard.analyzing
  /\ external
  /\ room(1)
  /\ dashboard' = [dashboard EXCEPT !.analyzing = TRUE]
  /\ analyses' = analyses \cup {[logs |-> logs, logSummary |-> logSummaryOf(logs)]}
  /\ UNCHANGED <<roundTrip, now, appVars, chatVars, handshakes, sends, echoTimers, echoes, logVars,
                 nChats, nMessages, history>>

\* Mutant: analyzeLogs has no catch, and a rejected generateContent ends
\* runAnalysis at its await.
runAnalysis_resume_uncaught(a, response) ==
  /\ a \in analyses
  /\ analyses' = analyses \ {a}
  /\ dashboard' = IF response.kind = "rejects" THEN dashboard
                  ELSE [dashboard EXCEPT !.analysis = analyzeLogs(response),
                                         !.analyzing = FALSE]
  /\ UNCHANGED <<roundTrip, now, appVars, chatVars, handshakes, sends, echoTimers, echoes, logVars,
                 nChats, nMessages, history, events>>

\* After the await.
runAnalysis_resume(a, response) ==
  /\ a \in analyses
  /\ analyses' = analyses \ {a}
  /\ dashboard' = [dashboard EXCEPT !.analysis = analyzeLogs(response),
                                    !.analyzing = FALSE]
  /\ UNCHANGED <<roundTrip, now, appVars, chatVars, handshakes, sends, echoTimers, echoes, logVars,
                 nChats, nMessages, history, events>>

Next ==
  \/ Tick
  \/ \E p \in pendingLogs : handleLogEvent_resume(p)
  \/ \E u \in Users : handleLogin(u)
  \/ handleLogout
  \/ \E v \in Views : setActiveView(v)
  \/ \E k \in KeywordInputs : addKeyword(k)
  \/ \E k \in RemoveInputs : removeKeyword(k)
  \/ \E h \in handshakes : initSession_start(h)
  \/ \E h \in handshakes : initSession_keyPair(h)
  \/ \E h \in handshakes : initSession_wrapped(h)
  \/ \E h \in handshakes : initSession_secure(h)
  \/ \E h \in handshakes : \E rejected \in AwaitedAt(h.pc) : initSession_catch(h, rejected)
  \/ \E inputText \in Texts : handleSendMessage(inputText)
  \/ \E s \in sends : handleSendMessage_resume(s)
  \/ \E t \in echoTimers : echo_fire(t)
  \/ \E e \in echoes : echo_resume(e)
  \/ \E confirmed \in BOOLEAN : handleReportIncident(confirmed)
  \/ verifyIntegrity
  \/ runAnalysis
  \/ \E a \in analyses, response \in GeminiResponses : runAnalysis_resume(a, response)

Spec == Init /\ [][Next]_vars

\* A step of the handshake of Chat instance c: the awaited calls settle.
initSession_step(c) ==
  \E h \in handshakes :
    /\ h.chat = c
    /\ \/ initSession_start(h)
       \/ initSession_keyPair(h)
       \/ initSession_wrapped(h)
       \/ initSession_secure(h)
       \/ \E rejected \in AwaitedAt(h.pc) : initSession_catch(h, rejected)

\* The promises awaited by initSession settle: each handshake goes on.
HandshakeSpec == Spec /\ \A c \in 1..MaxEvents : WF_vars(initSession_step(c))

\* The promises awaited by handleSendMessage, by the echo callback and by
\* handleLogEvent settle, and the 1500 ms timer fires.
EchoSpec ==
  /\ Spec
  /\ WF_vars(\E s \in sends : handleSendMessage_resume(s))
  /\ WF_vars(\E t \in echoTimers : echo_fire(t))
  /\ WF_vars(\E e \in echoes : echo_resume(e))
  /\ WF_vars(\E p \in pendingLogs : handleLogEvent_resume(p))

\* The digest awaited by handleLogEvent resolves: a suspended call resumes.
FairSpec == Spec /\ WF_vars(\E p \in pendingLogs : handleLogEvent_resume(p))

(***************************************************************************)
(* The dashboard on its own.  The behaviours start where a user has logged *)
(* in, the handshake of the Chat has ended one way or the other, the user  *)
(* has sent a message and seen its echo, or reported two incidents, or     *)
(* done neither, every log call has been appended and the user has opened  *)
(* the dashboard; the clock may have moved between one of the first two    *)
(* calls and its append.  From there the user stays on the dashboard and   *)
(* the settings.                                                           *)
(***************************************************************************)
\* Clock readings of the two log calls before the dashboard is opened.
MaxAuditClock == 1

\* What the user did in the chat before opening the dashboard.
AuditPasts == {"nothing", "message", "incidents"}

\* The entry of a call made and appended at the same clock reading.
auditEntry(call, type, metadata, severity, u, at) ==
  newLogOf(pendingOf(call, type, metadata, severity, u, at, call - 1), at)

\* The entries of Leak, sent by u in chat 1 under its session key, and of its
\* echo responses[4].
auditMessageEntries(u, at) ==
  LET key == importAESKey(decryptRSA(rsaPairOf([chat |-> 1]).privateKey,
                                     encryptedSessionKeyOf([chat |-> 1])))
      content == <<"L","e","a","k">>
      enc == encryptMessage(key, 1, content)
  IN << auditEntry(3, "SUSPICIOUS_KEYWORD",
                   [keywords |-> << <<"l","e","a","k">> >>, length |-> Len(content)],
                   "WARNING", u, at),
        auditEntry(4, "MESSAGE_SENT",
                   [msgId |-> 1, size |-> ciphertextLength(content),
                    hash |-> hashData(enc.ciphertext)], "INFO", u, at),
        auditEntry(5, "MESSAGE_DECRYPTED", [msgId |-> 2, status |-> "SUCCESS"],
                   "INFO", u, at) >>

\* The entries of two confirmed incident reports.
auditIncidentEntries(u, fingerprint, at) ==
  LET metadata == [type |-> "USER_REPORTED_INCIDENT",
                   reason |-> "User suspected compromise",
                   sessionFingerprint |-> fingerprint]
  IN << auditEntry(3, "ANOMALY_DETECTED", metadata, "CRITICAL", u, at),
        auditEntry(4, "ANOMALY_DETECTED", metadata, "CRITICAL", u, at) >>

InitAudit ==
  \E u \in Users, failed \in BOOLEAN, past \in AuditPasts :
    \E loginAppended, outcomeCalled, outcomeAppended \in 0..MaxAuditClock :
      LET h == [chat |-> 1, uid |-> u, pc |-> "decrypt"]
          login == pendingOf(1, "LOGIN", [method |-> "PASSWORD", status |-> "SUCCESS"],
                             "INFO", u, 0, 0)
          outcome == IF failed
                     THEN pendingOf(2, "ANOMALY_DETECTED",
                                    [error |-> "RSA Key Exchange Failed"], "CRITICAL",
                                    u, outcomeCalled, 0)
                     ELSE pendingOf(2, "KEY_EXCHANGE", keyExchangeOf(h), "INFO",
                                    u, outcomeCalled, 0)
          fingerprint == IF failed THEN <<>> ELSE fingerprintOf(encryptedSessionKeyOf(h))
          later == CASE past = "nothing" -> <<>>
                     [] past = "message" -> auditMessageEntries(u, outcomeAppended)
                     [] past = "incidents" ->
                          auditIncidentEntries(u, fingerprint, outcomeAppended)
      IN
      /\ loginAppended <= outcomeAppended
      /\ outcomeCalled <= outcomeAppended
      /\ past = "message" => ~failed
      /\ roundTrip = NoRoundTrip
      /\ now = outcomeAppended
      /\ user = u
      /\ activeView = "dashboard"
      /\ logs = <<newLogOf(login, loginAppended), newLogOf(outcome, outcomeAppended)>>
                  \o later
      /\ suspiciousKeywords = InitialKeywords
      /\ chatId = 0
      /\ messages = <<>>
      /\ aesKey = NoKey
      /\ handshakeStatus = "Initializing..."
      /\ sessionFingerprint = <<>>
      /\ dashboard = FreshDashboard
      /\ handshakes = {}
      /\ sends = {}
      /\ echoTimers = {}
      /\ echoes = {}
      /\ pendingLogs = {}
      /\ analyses = {}
      /\ nChats = 1
      /\ logCalls = 2 + Len(later)
      /\ nMessages = IF past = "message" THEN 2 ELSE 0
      /\ events = 0
      /\ sendRejected = FALSE
      /\ staleEchoes = {}
      /\ failedChats = IF failed THEN {1} ELSE {}

NextAudit ==
  \/ \E v \in {"dashboard", "settings"} : setActiveView(v)
  \/ verifyIntegrity
  \/ runAnalysis
  \/ \E a \in analyses, response \in GeminiResponses : runAnalysis_resume(a, response)

SpecAudit == InitAudit /\ [][NextAudit]_vars

\* generateContent settles: the analyzeLogs awaited by runAnalysis returns.
AnalysisSpec ==
  /\ SpecAudit
  /\ WF_vars(\E a \in analyses, response \in GeminiResponses : runAnalysis_resume(a, response))

(***************************************************************************)
(* Properties.                                                             *)
(***************************************************************************)
\* C1: a message submitted while the handshake has not reached Secure (no
\* session key is set) is refused: the step adds no message, starts no
\* encryption, makes no log call, appends no log entry, schedules no echo and
\* leaves nothing behind that a later handshake could send.
C1_SendBeforeSecureIsRefused ==
  [][\A inputText \in Texts :
       (handleSendMessage(inputText) /\ (handshakeStatus # "Secure" \/ aesKey = NoKey))
         => UNCHANGED <<messages, logs, pendingLogs, logCalls, sends, echoTimers, echoes,
                        nMessages, handshakes>>]_vars

\* A non-blank message was submitted to a mounted Chat that had no key, the
\* handshake then reached Secure, and nothing was sent.
C1_Witness ==
  /\ sendRejected
  /\ handshakeStatus = "Secure"
  /\ nMessages = 0 /\ sends = {}
  /\ Len(messages) = 1

\* C2: every entry of the log chain carries the digest of its own stored
\* fields: recomputing H(eventType, metadata, timestamp, userId) from the
\* entry, with the entry's stored timestamp, gives the stored hash.
C2_HashCoversStoredFields ==
  \A i \in 1..Len(logs) :
    logs[i].hash = hashData(payloadOf(logs[i].eventType, logs[i].metadata,
                                      logs[i].timestamp, logs[i].userId))

\* C3: the dashboard reports the chain as verified only when every entry's
\* hash is the digest recomputed from the entry's stored fields.
C3_VerifiedOnlyIfRecomputed ==
  (dashboard.mounted /\ dashboard.integrityStatus = "verified")
    => \A i \in 1..Len(logs) :
         hashData(payloadOf(logs[i].eventType, logs[i].metadata, logs[i].timestamp,
                            logs[i].userId)) = logs[i].hash

\* C4: while one Chat instance is mounted its handshake status stays, or moves
\* one step forward along Initializing, Generating RSA Keypair, Negotiating
\* Session Key, Decrypting Session Key, Secure, or moves from one of the first
\* four to Handshake Failed; from Secure and from Handshake Failed it does
\* not move.
statusRank(status) ==
  CASE status = "Initializing..." -> 0
    [] status = "Generating RSA Keypair..." -> 1
    [] status = "Negotiating Session Key..." -> 2
    [] status = "Decrypting Session Key..." -> 3
    [] status = "Secure" -> 4
    [] status = "Handshake Failed" -> 5

C4_StatusMovesForward ==
  [][(chatId # 0 /\ chatId' = chatId)
       => \/ handshakeStatus' = handshakeStatus
          \/ /\ statusRank(handshakeStatus) < 4
             /\ \/ statusRank(handshakeStatus') = statusRank(handshakeStatus) + 1
                \/ handshakeStatus' = "Handshake Failed"]_vars

\* A second Chat instance has gone from Initializing to Secure.
C4_Witness ==
  /\ chatId = 2
  /\ handshakeStatus = "Secure"
  /\ handshakes = {}

\* The handleLogEvent calls made by the catch of initSession, awaiting their
\* digest or appended.
failureCalls ==
  {p.call : p \in {q \in pendingLogs :
                     /\ q.type = "ANOMALY_DETECTED" /\ q.severity = "CRITICAL"
                     /\ q.metadata = [error |-> "RSA Key Exchange Failed"]}}

failureEntries ==
  {i \in 1..Len(logs) :
     /\ logs[i].eventType = "ANOMALY_DETECTED" /\ logs[i].severity = "CRITICAL"
     /\ logs[i].metadata = [error |-> "RSA Key Exchange Failed"]}

\* A Chat whose handshake failed shows Handshake Failed and has no session key
\* for as long as it is mounted, and each failure has made one CRITICAL log
\* call, which is awaiting its digest or has been appended.
failureHandled ==
  /\ \A c \in failedChats :
       chatId = c => handshakeStatus = "Handshake Failed" /\ aesKey = NoKey
  /\ handshakeStatus = "Handshake Failed" => chatId \in failedChats
  /\ Cardinality(failureCalls) + Cardinality(failureEntries) = Cardinality(failedChats)

C6_KeyOnlyWhenSecure ==
  aesKey # NoKey => handshakeStatus = "Secure"

\* The key is set and a message has been encrypted under it.
C6_Witness ==
  /\ aesKey # NoKey
  /\ \E i \in 1..Len(messages) :
       /\ ~messages[i].isSystem
       /\ messages[i].encryptedContent[2].aesgcm = aesKey

\* C7: an echo whose Chat was unmounted before its timer fired appends no
\* MESSAGE_DECRYPTED entry to the log and makes no such log call.
C7_UnmountCancelsEcho ==
  /\ \A i \in 1..Len(logs) :
       logs[i].eventType = "MESSAGE_DECRYPTED" => logs[i].metadata.msgId \notin staleEchoes
  /\ \A p \in pendingLogs :
       p.type = "MESSAGE_DECRYPTED" => p.metadata.msgId \notin staleEchoes

\* C8: every step leaves the log as it was or with entries added at its end.
C8_LogIsAppendOnly ==
  [][/\ Len(logs') >= Len(logs)
     /\ SubSeq(logs', 1, Len(logs)) = logs]_vars

\* A log that has been through a login, a handshake and a logout.
C8_Witness ==
  /\ user = NoUser
  /\ Len(logs) >= 3
  /\ \E i \in 1..Len(logs) : logs[i].eventType = "LOGOUT"

\* C9: every handleLogEvent call made so far is awaiting its digest or has
\* exactly one entry in the log, and the log holds nothing else.
C9_OneEntryPerCall ==
  /\ Len(logs) + Cardinality(pendingLogs) = logCalls
  /\ \A c \in 1..logCalls :
       Cardinality({i \in 1..Len(logs) : logs[i].id = c})
         + Cardinality({p \in pendingLogs : p.call = c}) = 1

\* Two calls were in flight together (the later call was appended first) and
\* both have been appended.
C9_Witness ==
  /\ pendingLogs = {}
  /\ Len(logs) >= 2
  /\ \E i, j \in 1..Len(logs) : i < j /\ logs[i].id > logs[j].id

\* C10: the timestamps of the log never decrease along it.
C10_LogIsChronological ==
  \A i, j \in 1..Len(logs) : i < j => logs[i].timestamp <= logs[j].timestamp

\* Two overlapping calls were appended against the order of their calls, the
\* clock having moved between the two appends.
C10_Witness ==
  \E i, j \in 1..Len(logs) :
    /\ i < j
    /\ logs[i].id > logs[j].id
    /\ logs[i].timestamp < logs[j].timestamp



(***************************************************************************)
(* The keyword list in use.  The behaviours start where a user has logged  *)
(* in, the handshake has succeeded, the user has sent Leak and seen its    *)
(* echo, or has sent nothing, every log call has been appended and the     *)
(* user has opened the settings.  From there every handler may run.        *)
(***************************************************************************)
InitSettings ==
  \E u \in Users, past \in {"nothing", "message"} :
    LET h == [chat |-> 1, uid |-> u, pc |-> "decrypt"]
        later == IF past = "message" THEN auditMessageEntries(u, 0) ELSE <<>>
    IN
    /\ roundTrip = NoRoundTrip
    /\ now = 0
    /\ user = u
    /\ activeView = "settings"
    /\ logs = << auditEntry(1, "LOGIN", [method |-> "PASSWORD", status |-> "SUCCESS"],
                            "INFO", u, 0),
                 auditEntry(2, "KEY_EXCHANGE", keyExchangeOf(h), "INFO", u, 0) >> \o later
    /\ suspiciousKeywords = InitialKeywords
    /\ chatId = 0
    /\ messages = <<>>
    /\ aesKey = NoKey
    /\ handshakeStatus = "Initializing..."
    /\ sessionFingerprint = <<>>
    /\ dashboard = NoDashboard
    /\ handshakes = {}
    /\ sends = {}
    /\ echoTimers = {}
    /\ echoes = {}
    /\ pendingLogs = {}
    /\ analyses = {}
    /\ nChats = 1
    /\ logCalls = 2 + Len(later)
    /\ nMessages = IF past = "message" THEN 2 ELSE 0
    /\ events = 0
    /\ sendRejected = FALSE
    /\ staleEchoes = {}
    /\ failedChats = {}

SpecSettings == InitSettings /\ [][Next]_vars

(***************************************************************************)
(* services/crypto on its own: one message is encrypted under a session    *)
(* key, the envelope or the key may be replaced on the way, and the        *)
(* envelope is decrypted.                                                  *)
(***************************************************************************)
\* Session keys of two Chat instances.
SessionKeys == {importAESKey(exportKey(sessionKeyRawOf([chat |-> c]))) : c \in {1, 2}}

\* Messages: the texts of the chat input, an echo, the empty string, and
\* strings that hold a byte order mark or a surrogate without its pair.
Plaintexts ==
  Texts \cup
  { responses[4], <<>>, <<ByteOrderMark, "o", "k">>, <<"o", ByteOrderMark, "k">>,
    <<"o", "k", LoneSurrogate>> }

\* The ivs getRandomValues may return here.
RoundTripIvs == {1, 2}

\* What may happen to the envelope or the key before the decryption.
Tamperings == {"ciphertext bit", "ciphertext base64", "iv", "key"}

\* Everything but roundTrip.
appState ==
  <<now, appVars, chatVars, dashboard, taskVars, logVars, nChats, nMessages, events, history>>

InitCrypto ==
  /\ AppInit
  /\ roundTrip \in
       {[pc |-> "start", key |-> key, message |-> message, iv |-> iv] :
          key \in SessionKeys, message \in Plaintexts, iv \in RoundTripIvs}

\* encryptMessage(key, message) returns its envelope.
roundTrip_encrypt ==
  /\ roundTrip.pc = "start"
  /\ roundTrip' =
       [pc |-> "encrypted", key |-> roundTrip.key, message |-> roundTrip.message,
        envelope |-> encryptMessage(roundTrip.key, roundTrip.iv, roundTrip.message),
        decryptKey |-> roundTrip.key, tampering |-> "none"]
  /\ UNCHANGED appState

\* The envelope is altered, or another key is taken for the decryption.
roundTrip_tamper(tampering) ==
  LET envelope == roundTrip.envelope IN
  /\ roundTrip.pc = "encrypted" /\ roundTrip.tampering = "none"
  /\ \E iv \in RoundTripIvs \ {envelope.iv}, key \in SessionKeys \ {roundTrip.key} :
       roundTrip' =
         [roundTrip EXCEPT
            !.tampering = tampering,
            !.envelope =
               CASE tampering = "ciphertext bit" ->
                      [envelope EXCEPT !.ciphertext = [flipped |-> envelope.ciphertext]]
                 [] tampering = "ciphertext base64" ->
                      [envelope EXCEPT !.ciphertext = [garbled |-> envelope.ciphertext]]
                 [] tampering = "iv" -> [envelope EXCEPT !.iv = iv]
                 [] OTHER -> envelope,
            !.decryptKey = IF tampering = "key" THEN key ELSE roundTrip.key]
  /\ UNCHANGED appState

\* decryptMessage(key, ciphertext, iv) returns or throws.
roundTrip_decrypt ==
  /\ roundTrip.pc = "encrypted"
  /\ roundTrip' =
       [pc |-> "decrypted", key |-> roundTrip.key, message |-> roundTrip.message,
        tampering |-> roundTrip.tampering,
        result |-> decryptMessage(roundTrip.decryptKey, roundTrip.envelope.ciphertext,
                                  roundTrip.envelope.iv)]
  /\ UNCHANGED appState

NextCrypto ==
  \/ roundTrip_encrypt
  \/ \E tampering \in Tamperings : roundTrip_tamper(tampering)
  \/ roundTrip_decrypt

SpecCrypto == InitCrypto /\ [][NextCrypto]_vars


(***************************************************************************)
(* The envelope string on its own: the iv and the ciphertext bytes are     *)
(* written in base64, joined as encryptedContent, and read back.           *)
(***************************************************************************)
Base64Alphabet ==
  << "A", "B", "C", "D", "E", "F", "G", "H", "I", "J", "K", "L", "M", "N", "O", "P", "Q", "R", "S", "T", "U", "V", "W", "X", "Y", "Z", "a", "b", "c", "d", "e", "f",
     "g", "h", "i", "j", "k", "l", "m", "n", "o", "p", "q", "r", "s", "t", "u", "v", "w", "x", "y", "z", "0", "1", "2", "3", "4", "5", "6", "7", "8", "9", "+", "/" >>

\* The byte at index k, or 0 past the end.
byteAt(bytes, k) == IF k <= Len(bytes) THEN bytes[k] ELSE 0

\* window.btoa of the binary string whose char codes are codes.
btoa(codes) ==
  [j \in 1..(4 * ((Len(codes) + 2) \div 3)) |->
     LET g == (j - 1) \div 4
         b1 == byteAt(codes, 3 * g + 1)
         b2 == byteAt(codes, 3 * g + 2)
         b3 == byteAt(codes, 3 * g + 3)
     IN CASE (j - 1) % 4 = 0 -> Base64Alphabet[(b1 \div 4) + 1]
          [] (j - 1) % 4 = 1 -> Base64Alphabet[(b1 % 4) * 16 + (b2 \div 16) + 1]
          [] (j - 1) % 4 = 2 ->
               IF 3 * g + 2 > Len(codes) THEN "="
               ELSE Base64Alphabet[(b2 % 16) * 4 + (b3 \div 64) + 1]
          [] OTHER ->
               IF 3 * g + 3 > Len(codes) THEN "=" ELSE Base64Alphabet[(b3 % 64) + 1]]

\* Mutant: the binary string is built from the low seven bits of each byte.
bufferToBase64_sevenBit(buffer) == btoa([i \in 1..Len(buffer) |-> buffer[i] % 128])

\* bufferToBase64: String.fromCharCode of each byte, then btoa.
bufferToBase64(buffer) == btoa([i \in 1..Len(buffer) |-> buffer[i]])

\* The string without its '=' padding, when its length is a multiple of 4.
unpadded(str) ==
  LET n == Len(str)
      pad == IF n % 4 # 0 \/ n = 0 THEN 0
             ELSE IF str[n] # "=" THEN 0
             ELSE IF str[n - 1] # "=" THEN 1 ELSE 2
  IN SubSeq(str, 1, n - pad)

\* Uint8Array.from(atob(str), c => c.charCodeAt(0)): the bytes, or the error
\* atob throws on a string that is not base64.
atob(str) ==
  LET data == unpadded(str)
      valid == /\ Len(data) % 4 # 1
               /\ \A j \in 1..Len(data) : \E v \in 1..64 : Base64Alphabet[v] = data[j]
      sextet(j) == IF j <= Len(data)
                   THEN (CHOOSE v \in 1..64 : Base64Alphabet[v] = data[j]) - 1
                   ELSE 0
  IN IF ~valid THEN [error |-> "InvalidCharacterError"]
     ELSE [bytes |->
             [k \in 1..((Len(data) * 6) \div 8) |->
                LET g == (k - 1) \div 3 IN
                CASE (k - 1) % 3 = 0 -> sextet(4 * g + 1) * 4 + (sextet(4 * g + 2) \div 16)
                  [] (k - 1) % 3 = 1 ->
                       (sextet(4 * g + 2) % 16) * 16 + (sextet(4 * g + 3) \div 4)
                  [] OTHER -> (sextet(4 * g + 3) % 4) * 64 + sextet(4 * g + 4)]]

\* `${iv}:${ciphertext}`
encryptedContentOf(iv, ciphertext) == iv \o <<":">> \o ciphertext

\* str.split(separator)
RECURSIVE split(_, _)
split(str, separator) ==
  LET hits == {j \in 1..Len(str) : str[j] = separator} IN
  IF hits = {} THEN <<str>>
  ELSE LET first == CHOOSE j \in hits : \A k \in hits : j <= k
       IN <<SubSeq(str, 1, first - 1)>> \o split(SubSeq(str, first + 1, Len(str)), separator)

\* The length of the iv encryptMessage draws.
IvBytes == 12

\* Ivs and ciphertexts, as bytes; a ciphertext is at least its 16-byte tag.
WireIvs == {[i \in 1..IvBytes |-> (seed + 37 * i) % 256] : seed \in {0, 21, 58, 129, 200, 255}}
WireCiphertexts ==
  {[i \in 1..len |-> (seed + 7 * i * i) % 256] : len \in 16..18, seed \in {58, 250}}

InitWire ==
  /\ AppInit
  /\ roundTrip \in {[pc |-> "bytes", iv |-> iv, ciphertext |-> ciphertext] :
                      iv \in WireIvs, ciphertext \in WireCiphertexts}

\* encryptMessage's return value, joined by handleSendMessage.
wire_join ==
  /\ roundTrip.pc = "bytes"
  /\ roundTrip' =
       [pc |-> "joined", iv |-> roundTrip.iv, ciphertext |-> roundTrip.ciphertext,
        encryptedContent |-> encryptedContentOf(bufferToBase64(roundTrip.iv),
                                                bufferToBase64(roundTrip.ciphertext))]
  /\ UNCHANGED appState

\* The string is split at ':' and each part decoded as decryptMessage does.
wire_split ==
  /\ roundTrip.pc = "joined"
  /\ roundTrip' =
       [pc |-> "split", iv |-> roundTrip.iv, ciphertext |-> roundTrip.ciphertext,
        parts |-> [k \in 1..Len(split(roundTrip.encryptedContent, ":")) |->
                     atob(split(roundTrip.encryptedContent, ":")[k])]]
  /\ UNCHANGED appState

NextWire == wire_join \/ wire_split

SpecWire == InitWire /\ [][NextWire]_vars

\* The keyword occurs in the text, letter case ignored on both sides.
occursIgnoringCase(kw, text) == includes(toLowerCase(text), toLowerCase(kw))

\* The SUSPICIOUS_KEYWORD calls a step makes.
newKeywordCalls == {p \in pendingLogs' \ pendingLogs : p.type = "SUSPICIOUS_KEYWORD"}

\* C11: an accepted send makes a SUSPICIOUS_KEYWORD call exactly when some
\* keyword of the list occurs in the plaintext, letter case ignored; it then
\* makes one such call, of severity WARNING, whose metadata lists the keywords
\* that occur (in the order of the list) and the length of the plaintext; no
\* other step makes a SUSPICIOUS_KEYWORD call.
C11_ScanListsMatchedKeywords ==
  [][/\ \A inputText \in Texts :
          (handleSendMessage(inputText) /\ ~sendRefused(inputText))
            => LET occurs(kw) == occursIgnoringCase(kw, inputText)
                   matched == SelectSeq(suspiciousKeywords, occurs)
               IN IF Len(matched) > 0
                  THEN \E p \in pendingLogs' :
                         /\ newKeywordCalls = {p}
                         /\ p.severity = "WARNING"
                         /\ p.metadata = [keywords |-> matched, length |-> Len(inputText)]
                  ELSE newKeywordCalls = {}
     /\ newKeywordCalls # {}
          => \E inputText \in Texts : handleSendMessage(inputText) /\ ~sendRefused(inputText)
    ]_vars

\* The message Leak was accepted and its SUSPICIOUS_KEYWORD entry, listing
\* the keyword leak and the length 4, is in the log.
C11_Witness ==
  \E i \in 1..Len(logs) :
    /\ logs[i].eventType = "SUSPICIOUS_KEYWORD"
    /\ logs[i].severity = "WARNING"
    /\ logs[i].metadata = [keywords |-> << <<"l","e","a","k">> >>, length |-> 4]

\* The messages whose envelope Chat has passed to decryptMessage: Chat calls
\* encryptMessage and hashData only, and the echo callback shows the text it
\* encrypted itself.
decryptedByChat == {}

\* C12: a MESSAGE_DECRYPTED entry is in the log only for a message whose
\* envelope was decrypted under the session key.
C12_DecryptedOnlyAfterDecryption ==
  \A i \in 1..Len(logs) :
    logs[i].eventType = "MESSAGE_DECRYPTED" => logs[i].metadata.msgId \in decryptedByChat

(***************************************************************************)
(* The rubric of SYSTEM_INSTRUCTION, which analyzeLogs sends to the        *)
(* collaborator as its system instruction.                                 *)
(***************************************************************************)
RubricRules ==
  <<"SUSPICIOUS_KEYWORD", "CRITICAL", "WARNING", "ANOMALY_DETECTED", "HASH_MISMATCH">>

\* The entries of the chain a rule counts; no handler writes metadata that
\* reports an integrity hash mismatch.
ruleMatches(rule, chain) ==
  {i \in 1..Len(chain) :
     CASE rule = "SUSPICIOUS_KEYWORD" -> chain[i].eventType = "SUSPICIOUS_KEYWORD"
       [] rule = "CRITICAL" -> chain[i].severity = "CRITICAL"
       [] rule = "WARNING" -> chain[i].severity = "WARNING"
       [] rule = "ANOMALY_DETECTED" -> chain[i].eventType = "ANOMALY_DETECTED"
       [] rule = "HASH_MISMATCH" -> "hashMismatch" \in DOMAIN chain[i].metadata}

\* The points a rule adds: per matching entry, or once for the last rule.
rulePoints(rule, chain) ==
  LET n == Cardinality(ruleMatches(rule, chain)) IN
  CASE rule = "SUSPICIOUS_KEYWORD" -> 15 * n
    [] rule = "CRITICAL" -> 25 * n
    [] rule = "WARNING" -> 10 * n
    [] rule = "ANOMALY_DETECTED" -> 20 * n
    [] rule = "HASH_MISMATCH" -> IF n > 0 THEN 50 ELSE 0

RECURSIVE rubricSum(_, _)
rubricSum(k, chain) ==
  IF k = 0 THEN 0 ELSE rubricSum(k - 1, chain) + rulePoints(RubricRules[k], chain)

\* Rule 7: the sum of the rules, capped at 100.
rubricScore(chain) ==
  LET raw == rubricSum(Len(RubricRules), chain) IN IF raw > 100 THEN 100 ELSE raw

\* The Dashboard shows the result of an analysis.
analysisShown == dashboard.mounted /\ dashboard.analysis # [kind |-> "null"]

\* C13: the score of a displayed analysis is the rubric's score of the log
\* chain, whatever the collaborator did.
C13_ScoreIsRubricOfLogs ==
  analysisShown =>
    /\ "score" \in DOMAIN dashboard.analysis
    /\ dashboard.analysis.score = rubricScore(logs)

\* C14: the score of a displayed analysis is an integer from 0 to 100,
\* whatever the collaborator sent, and it is 100 when the rules of the rubric
\* add up to more than 100 on the log chain.
C14_ScoreIsClamped ==
  analysisShown =>
    /\ "score" \in DOMAIN dashboard.analysis
    /\ dashboard.analysis.score \in 0..100
    /\ rubricSum(Len(RubricRules), logs) > 100 => dashboard.analysis.score = 100

\* The fields of an AnalysisResult.
AnalysisResultFields == {"score", "summary", "anomalies", "riskFactors"}

\* The collaborator answered with a JSON object that has the required fields
\* of the responseSchema.
wellFormed(response) ==
  /\ response.kind = "text"
  /\ response.text.kind = "json"
  /\ DOMAIN response.text.value = AnalysisResultFields

\* C15: when the collaborator rejects, answers with no text or answers with
\* text that is not a well-formed result, the analysis shown has the four
\* fields of an AnalysisResult and the fallback summary.
C15_FallbackOnBadResponse ==
  [][\A a \in analyses, response \in GeminiResponses :
       (runAnalysis_resume(a, response) /\ ~wellFormed(response))
         => /\ DOMAIN dashboard'.analysis = AnalysisResultFields
            /\ dashboard'.analysis.summary
                 = "Automated analysis failed. Manual review required."
    ]_vars

\* The breakdown of the rubric: the rules that add points, in rule order.
rubricFactors(chain) ==
  LET all == [k \in 1..Len(RubricRules) |->
                [factor |-> RubricRules[k], points |-> rulePoints(RubricRules[k], chain),
                 count |-> Cardinality(ruleMatches(RubricRules[k], chain))]]
      contributes(f) == f.points # 0
  IN SelectSeq(all, contributes)

\* C16: the riskFactors of a displayed analysis are the rules of the rubric
\* that add points on the log chain, one entry per rule, in rule order, each
\* with the rule's points and its count of matching entries.
C16_RiskFactorsFollowRubric ==
  analysisShown =>
    /\ "riskFactors" \in DOMAIN dashboard.analysis
    /\ Len(dashboard.analysis.riskFactors) = Len(rubricFactors(logs))
    /\ \A k \in 1..Len(rubricFactors(logs)) :
         /\ dashboard.analysis.riskFactors[k].points = rubricFactors(logs)[k].points
         /\ dashboard.analysis.riskFactors[k].count = rubricFactors(logs)[k].count

\* The entries an analysis describes as anomalies.
anomalousEntries(chain) ==
  {i \in 1..Len(chain) :
     chain[i].severity = "CRITICAL" \/ chain[i].eventType = "ANOMALY_DETECTED"}

\* C17: the anomalies of a displayed analysis hold one string for each entry
\* of the log chain that is CRITICAL or ANOMALY_DETECTED, and no other.
C17_OneAnomalyPerFlaggedEntry ==
  analysisShown =>
    /\ "anomalies" \in DOMAIN dashboard.analysis
    /\ Len(dashboard.analysis.anomalies) = Cardinality(anomalousEntries(logs))

\* A whole digest, as hashData returns it.
fullHash(value) == "sha256" \in DOMAIN value

\* C18: in the digest handed to the collaborator no item holds a whole hash,
\* neither as the item's own hash nor as the hash of its metadata.
C18_DigestHoldsNoFullHash ==
  \A a \in analyses :
    \A i \in 1..Len(a.logSummary) :
      /\ ~fullHash(a.logSummary[i].hash)
      /\ "hash" \in DOMAIN a.logSummary[i].metadata
           => ~fullHash(a.logSummary[i].metadata.hash)

\* C19: decrypting, under the key it was encrypted with, the envelope that
\* encryptMessage returned gives back the message.
C19_DecryptInvertsEncrypt ==
  (roundTrip.pc = "decrypted" /\ roundTrip.tampering = "none")
    => roundTrip.result = [plaintext |-> roundTrip.message]

\* C20: decrypting an envelope whose ciphertext or iv is not the one
\* encryptMessage returned, or under another key, throws and returns no
\* plaintext.
C20_TamperingIsRejected ==
  (roundTrip.pc = "decrypted" /\ roundTrip.tampering # "none")
    => DOMAIN roundTrip.result = {"error"}

\* A non-empty message was encrypted, a bit of its ciphertext was changed and
\* the decryption threw the error of a failed tag.
C20_Witness ==
  /\ roundTrip.pc = "decrypted"
  /\ roundTrip.tampering = "ciphertext bit"
  /\ roundTrip.message # <<>>
  /\ roundTrip.result = [error |-> "OperationError"]

\* C22: while the handshake of the mounted Chat is Secure, the session key
\* installed has the bytes of the key that generateAESKey made for that
\* Chat, and a Chat whose handshake failed shows the failure and has no key.
C22_InstalledKeyIsGeneratedKey ==
  /\ (chatId # 0 /\ handshakeStatus = "Secure")
       => exportKey(aesKey) = exportKey(sessionKeyRawOf([chat |-> chatId]))
  /\ chatId \in failedChats
       => (aesKey = NoKey /\ handshakeStatus = "Handshake Failed")

\* A second Chat instance is Secure under its own key.
C22_Witness ==
  /\ chatId = 2
  /\ handshakeStatus = "Secure"
  /\ aesKey = sessionKeyRawOf([chat |-> 2])

\* The fingerprints that KEY_EXCHANGE calls have recorded, appended or not.
loggedFingerprints ==
  {logs[i].metadata.rsaKeyFingerprint :
     i \in {j \in 1..Len(logs) : logs[j].eventType = "KEY_EXCHANGE"}}
  \cup {p.metadata.rsaKeyFingerprint : p \in {q \in pendingLogs : q.type = "KEY_EXCHANGE"}}

\* C23: while the handshake of the mounted Chat is Secure, the fingerprint
\* shown is the first 16 digits of the digest of the wrapped key from which
\* the installed session key is unwrapped, and a KEY_EXCHANGE call has
\* recorded that fingerprint; while it is not Secure the fingerprint is empty.
C23_FingerprintOfWrappedKey ==
  /\ (chatId # 0 /\ handshakeStatus = "Secure")
       => LET wrapped == encryptedSessionKeyOf([chat |-> chatId]) IN
            /\ decryptRSA(rsaPairOf([chat |-> chatId]).privateKey, wrapped)
                 = exportKey(aesKey)
            /\ sessionFingerprint = [substring16 |-> hashData([base64 |-> wrapped])]
            /\ sessionFingerprint \in loggedFingerprints
  /\ handshakeStatus # "Secure" => sessionFingerprint = <<>>

\* A second Chat instance is Secure and shows a fingerprint other than the
\* first one's, which is in the log as well.
C23_Witness ==
  /\ chatId = 2
  /\ handshakeStatus = "Secure"
  /\ sessionFingerprint # <<>>
  /\ Cardinality(loggedFingerprints) = 2

\* The Chat instances that have a handshake under way.
handshaking(tasks) == {h.chat : h \in tasks}

\* C24: a handshake starts only when a Chat instance is mounted, one for the
\* instance; while the same instance stays mounted a session key that is set
\* is neither replaced nor cleared; and every message of the instance that
\* is not a system message is encrypted under the instance's key.
C24_OneKeyPerInstance ==
  [][/\ handshaking(handshakes')
          \subseteq handshaking(handshakes) \cup (IF chatId' # chatId THEN {chatId'} ELSE {})
     /\ \A c \in 1..nChats' : Cardinality({h \in handshakes' : h.chat = c}) <= 1
     /\ (chatId' = chatId /\ aesKey # NoKey) => aesKey' = aesKey
     /\ \A i \in 1..Len(messages') :
          ~messages'[i].isSystem => messages'[i].encryptedContent[2].aesgcm = aesKey'
    ]_vars

\* A sent message and its echo are in the conversation, both under the key
\* of the mounted Chat.
C24_Witness ==
  /\ aesKey # NoKey
  /\ \E i, j \in 1..Len(messages) :
       /\ ~messages[i].isSystem /\ messages[i].senderId = user
       /\ messages[j].senderId = "remote-user"
       /\ messages[i].encryptedContent[2].aesgcm = aesKey
       /\ messages[j].encryptedContent[2].aesgcm = aesKey

\* C25: a step that adds or removes a keyword leaves the log and the calls
\* under way as they are and makes no SUSPICIOUS_KEYWORD call; a call under
\* way is appended with the metadata it was made with; and an accepted send
\* is scanned against the keyword list as it is when the message is sent.
C25_KeywordChangeIsNotRetroactive ==
  [][/\ ((\E k \in KeywordInputs : addKeyword(k)) \/ (\E k \in RemoveInputs : removeKeyword(k)))
          => /\ logs' = logs
             /\ pendingLogs \subseteq pendingLogs'
             /\ newKeywordCalls = {}
     /\ \A p \in pendingLogs :
          handleLogEvent_resume(p)
            => /\ SubSeq(logs', 1, Len(logs)) = logs
               /\ logs'[Len(logs')].metadata = p.metadata
     /\ \A inputText \in Texts :
          (handleSendMessage(inputText) /\ ~sendRefused(inputText))
            => LET occurs(kw) == occursIgnoringCase(kw, inputText)
               IN {p.metadata.keywords : p \in newKeywordCalls}
                    = {SelectSeq(suspiciousKeywords, occurs)} \ {<<>>}
    ]_vars

\* Leak was flagged, the keyword leak was then removed, and Leak was sent
\* again: the first message's entry is still in the log and no second
\* SUSPICIOUS_KEYWORD call was made.
C25_Witness ==
  /\ ~arrayIncludes(suspiciousKeywords, <<"l","e","a","k">>)
  /\ \E i \in 1..Len(messages) :
       /\ ~messages[i].isSystem
       /\ messages[i].content = <<"L","e","a","k">> /\ messages[i].id = 3
  /\ Len(logs) >= 3
  /\ logs[3].eventType = "SUSPICIOUS_KEYWORD"
  /\ \A p \in pendingLogs : p.type # "SUSPICIOUS_KEYWORD"
  /\ \A i \in 1..Len(logs) : logs[i].eventType = "SUSPICIOUS_KEYWORD" => i = 3

\* The MESSAGE_SENT calls made so far, appended or not, as (severity, metadata).
messageSentCalls ==
  {[severity |-> logs[i].severity, metadata |-> logs[i].metadata] :
     i \in {j \in 1..Len(logs) : logs[j].eventType = "MESSAGE_SENT"}}
  \cup {[severity |-> p.severity, metadata |-> p.metadata] :
          p \in {q \in pendingLogs : q.type = "MESSAGE_SENT"}}

\* C26: every message of the conversation that the user sent has as its
\* integrityHash the digest of its ciphertext alone, and one MESSAGE_SENT
\* call was made for it, of severity INFO, with the message's id, the length
\* of its ciphertext and that digest.
C26_HashOfCiphertextIsLogged ==
  \A i \in 1..Len(messages) :
    (~messages[i].isSystem /\ messages[i].senderId # "remote-user")
      => /\ messages[i].integrityHash = hashData(messages[i].encryptedContent[2])
         /\ {c \in messageSentCalls : c.metadata.msgId = messages[i].id}
              = {[severity |-> "INFO",
                  metadata |-> [msgId |-> messages[i].id,
                                size |-> ciphertextLength(messages[i].content),
                                hash |-> hashData(messages[i].encryptedContent[2])]]}

\* Leak is in the conversation and its MESSAGE_SENT entry is in the log.
C26_Witness ==
  \E i \in 1..Len(messages), j \in 1..Len(logs) :
    /\ ~messages[i].isSystem
    /\ messages[i].senderId = user
    /\ messages[i].content = <<"L","e","a","k">>
    /\ logs[j].eventType = "MESSAGE_SENT"
    /\ logs[j].metadata.hash = messages[i].integrityHash

\* The handshake of Chat instance c has ended: in its catch, or with the
\* KEY_EXCHANGE call that follows Secure.
handshakeEnded(c) ==
  \/ c \in failedChats
  \/ fingerprintOf(encryptedSessionKeyOf([chat |-> c])) \in loggedFingerprints

callsMade(type) ==
  {logs[i].id : i \in {j \in 1..Len(logs) : logs[j].eventType = type}}
  \cup {p.call : p \in {q \in pendingLogs : q.type = type}}

\* One message has been sent so far and it matched a keyword: one
\* SUSPICIOUS_KEYWORD call and one MESSAGE_SENT call were made and no send
\* is waiting for its encryption.
oneFlaggedMessage ==
  /\ Cardinality(callsMade("SUSPICIOUS_KEYWORD")) = 1
  /\ Cardinality(callsMade("MESSAGE_SENT")) = 1
  /\ sends = {}

\* C29: the entries of a message are in the log in the order of the
\* pipeline: when one message that matched a keyword has been sent, its
\* MESSAGE_SENT entry comes after its SUSPICIOUS_KEYWORD entry, and the
\* MESSAGE_DECRYPTED entry of its echo after its MESSAGE_SENT entry.
C29_EntriesInPipelineOrder ==
  oneFlaggedMessage =>
    \A j \in 1..Len(logs) :
      /\ logs[j].eventType = "MESSAGE_SENT"
           => \E i \in 1..(j - 1) : logs[i].eventType = "SUSPICIOUS_KEYWORD"
      /\ logs[j].eventType = "MESSAGE_DECRYPTED"
           => \E i \in 1..(j - 1) : logs[i].eventType = "MESSAGE_SENT"

\* C30: every handleLogEvent call is made with the id of the user who is
\* logged in when it is made (for LOGIN, the user who has just logged in),
\* never with the placeholder unknown.
C30_EntryNamesAuthenticatedUser ==
  [][\A p \in pendingLogs' \ pendingLogs :
       /\ p.targetUserId # "unknown"
       /\ p.targetUserId = IF p.type = "LOGIN" THEN user' ELSE user
    ]_vars

\* C31: nothing lies between a LOGOUT entry and the next LOGIN entry: the
\* entry that follows a LOGOUT entry in the log, if there is one, is a LOGIN
\* entry.
C31_NothingAfterLogout ==
  \A i \in 1..(Len(logs) - 1) :
    logs[i].eventType = "LOGOUT" => logs[i + 1].eventType = "LOGIN"

\* C32: the keyword list holds only non-empty, trimmed, lower-case strings,
\* each once; the scan, which lower-cases the plaintext alone, therefore
\* finds for every text the keywords that occur in it with letter case
\* ignored.
C32_KeywordsInNormalForm ==
  /\ \A i \in 1..Len(suspiciousKeywords) :
       LET kw == suspiciousKeywords[i] IN
       /\ kw # <<>>
       /\ trim(kw) = kw
       /\ toLowerCase(kw) = kw
       /\ \A j \in 1..Len(suspiciousKeywords) : suspiciousKeywords[j] = kw => j = i
  /\ \A text \in Texts \cup KeywordInputs :
       LET occurs(kw) == occursIgnoringCase(kw, text)
       IN detectedKeywordsOf(text) = SelectSeq(suspiciousKeywords, occurs)

\* The keyword typed as " Ok " was added and leak was removed.
C32_Witness ==
  /\ arrayIncludes(suspiciousKeywords, <<"o","k">>)
  /\ ~arrayIncludes(suspiciousKeywords, <<"l","e","a","k">>)

\* The handleLogEvent calls a step makes about a rule of the keyword list.
newRuleCalls ==
  {p \in pendingLogs' \ pendingLogs :
     p.type = "ANOMALY_DETECTED" /\ "action" \in DOMAIN p.metadata}

\* The step is the accepted add of the text typed: the text is not blank,
\* its keyword is not in the list and is appended to it, and one call is
\* made, of severity INFO, naming DLP_RULE_ADDED and the keyword.
ruleAdded(typed) ==
  LET keyword == toLowerCase(trim(typed)) IN
  /\ trim(typed) # <<>>
  /\ ~arrayIncludes(suspiciousKeywords, keyword)
  /\ suspiciousKeywords' = Append(suspiciousKeywords, keyword)
  /\ \E p \in pendingLogs' :
       /\ newRuleCalls = {p}
       /\ p.severity = "INFO"
       /\ p.metadata = [action |-> "DLP_RULE_ADDED", keyword |-> keyword]

\* The step is the removal of a keyword of the list: the keyword leaves the
\* list, the others stay in their order, and one call is made, of severity
\* WARNING, naming DLP_RULE_REMOVED and the keyword.
ruleRemoved(keyword) ==
  LET others(k) == k # keyword IN
  /\ arrayIncludes(suspiciousKeywords, keyword)
  /\ suspiciousKeywords' = SelectSeq(suspiciousKeywords, others)
  /\ \E p \in pendingLogs' :
       /\ newRuleCalls = {p}
       /\ p.severity = "WARNING"
       /\ p.metadata = [action |-> "DLP_RULE_REMOVED", keyword |-> keyword]

\* C33: an add or a remove made in Settings changes the list and makes one
\* ANOMALY_DETECTED call naming the keyword (INFO and DLP_RULE_ADDED for an
\* add, WARNING and DLP_RULE_REMOVED for a remove); nothing else changes the
\* list or makes such a call, so an add of a blank text or of a keyword of
\* the list changes neither the list nor the log.
C33_KeywordChangeIsLoggedOnce ==
  [][/\ \A typed \in KeywordInputs : addKeyword(typed) => ruleAdded(typed)
     /\ \A keyword \in RemoveInputs : removeKeyword(keyword) => ruleRemoved(keyword)
     /\ (suspiciousKeywords' # suspiciousKeywords \/ newRuleCalls # {})
          => \/ \E typed \in KeywordInputs : ruleAdded(typed)
             \/ \E keyword \in RemoveInputs : ruleRemoved(keyword)
    ]_vars

\* The keyword ok was added and leak removed, and both entries are in the
\* log.
C33_Witness ==
  \E i, j \in 1..Len(logs) :
    /\ logs[i].eventType = "ANOMALY_DETECTED" /\ logs[i].severity = "INFO"
    /\ logs[i].metadata = [action |-> "DLP_RULE_ADDED", keyword |-> <<"o","k">>]
    /\ logs[j].eventType = "ANOMALY_DETECTED" /\ logs[j].severity = "WARNING"
    /\ logs[j].metadata = [action |-> "DLP_RULE_REMOVED", keyword |-> <<"l","e","a","k">>]

\* The messages of the conversation up to position i that the user sent, and
\* those that are echoes.
sentUpTo(i) == {j \in 1..i : messages[j].senderId \in Users}
echoesUpTo(i) == {j \in 1..i : messages[j].senderId = "remote-user"}

\* The MESSAGE_DECRYPTED calls made so far for a message, appended or not.
decryptedCalls(msgId) ==
  {logs[i].id : i \in {j \in 1..Len(logs) :
                          /\ logs[j].eventType = "MESSAGE_DECRYPTED"
                          /\ logs[j].metadata.msgId = msgId}}
  \cup {p.call : p \in {q \in pendingLogs :
                           q.type = "MESSAGE_DECRYPTED" /\ q.metadata.msgId = msgId}}

\* The echoes of the conversation whose MESSAGE_DECRYPTED entry, of severity
\* INFO, is in the log.
echoesLogged ==
  {j \in echoesUpTo(Len(messages)) :
     \E k \in 1..Len(logs) :
       /\ logs[k].eventType = "MESSAGE_DECRYPTED"
       /\ logs[k].severity = "INFO"
       /\ logs[k].metadata = [msgId |-> messages[j].id, status |-> "SUCCESS"]}

\* The message with this id is in the conversation and as many echoes as
\* messages sent up to it are there with their entries.
answered(msgId) ==
  \E i \in sentUpTo(Len(messages)) :
    /\ messages[i].id = msgId
    /\ Cardinality(echoesLogged) >= Cardinality(sentUpTo(i))

\* Every echo of the conversation stands after a sent message of its own, is
\* encrypted under the key of the sent messages, and has one
\* MESSAGE_DECRYPTED call with its id.
echoesFollow ==
  \A i \in echoesUpTo(Len(messages)) :
    /\ Cardinality(echoesUpTo(i)) <= Cardinality(sentUpTo(i))
    /\ \A j \in sentUpTo(Len(messages)) :
         messages[j].encryptedContent[2].aesgcm = messages[i].encryptedContent[2].aesgcm
    /\ Cardinality(decryptedCalls(messages[i].id)) = 1

\* C34: while its Chat stays mounted, every accepted send leads to one echo
\* from remote-user in the conversation, after the sent message and under the
\* same session key, and to one MESSAGE_DECRYPTED entry of severity INFO with
\* the echo's id; no echo is there without a sent message before it.
C34_SendIsEchoed ==
  /\ []echoesFollow
  /\ \A msgId \in 1..(2 * MaxEvents), c \in 1..MaxEvents :
       (\E s \in sends : s.id = msgId /\ s.chat = c) ~> (chatId # c \/ answered(msgId))

\* Two messages were sent and both echoes and their entries are there.
C34_Witness ==
  /\ Cardinality(sentUpTo(Len(messages))) = 2
  /\ Cardinality(echoesLogged) = 2

\* The calls a step makes that record the outcome of a handshake.
newOutcomeCalls ==
  {p \in pendingLogs' \ pendingLogs :
     \/ p.type = "KEY_EXCHANGE"
     \/ p.type = "ANOMALY_DETECTED" /\ "error" \in DOMAIN p.metadata}

\* The conversation holds the welcome message.
welcomed(conversation) == \E i \in 1..Len(conversation) : conversation[i].isSystem

\* The step ends the handshake of Chat instance c with Secure: one call is
\* made, KEY_EXCHANGE of severity INFO and status SUCCESS, and the Chat, if
\* mounted, shows Secure and the welcome message.
endsSecure(c) ==
  /\ \E p \in pendingLogs' :
       /\ newOutcomeCalls = {p}
       /\ p.type = "KEY_EXCHANGE" /\ p.severity = "INFO"
       /\ p.metadata = keyExchangeOf([chat |-> c])
       /\ p.metadata.status = "SUCCESS"
  /\ chatId = c => handshakeStatus' = "Secure" /\ welcomed(messages')

\* The step ends the handshake of Chat instance c with Handshake Failed: one
\* call is made, ANOMALY_DETECTED of severity CRITICAL, and the conversation
\* is left as it was.
endsFailed(c) ==
  /\ \E p \in pendingLogs' :
       /\ newOutcomeCalls = {p}
       /\ p.type = "ANOMALY_DETECTED" /\ p.severity = "CRITICAL"
  /\ chatId = c => handshakeStatus' = "Handshake Failed"
  /\ messages' = messages

\* C35: the step that ends a handshake makes one outcome call, KEY_EXCHANGE
\* (INFO, SUCCESS) with Secure or ANOMALY_DETECTED (CRITICAL) with Handshake
\* Failed; no other step makes an outcome call, and the welcome message
\* enters the conversation only in a step that ends the handshake with
\* Secure.  Each Chat instance runs one handshake, which ends once.
C35_OneOutcomePerHandshake ==
  [][/\ \A c \in handshaking(handshakes) \ handshaking(handshakes') :
          endsSecure(c) \/ endsFailed(c)
     /\ newOutcomeCalls # {}
          => handshaking(handshakes) # handshaking(handshakes')
     /\ (welcomed(messages') /\ ~welcomed(messages))
          => /\ chatId \in handshaking(handshakes) \ handshaking(handshakes')
             /\ endsSecure(chatId)
     /\ handshaking(handshakes') \cap (1..nChats) \subseteq handshaking(handshakes)
    ]_vars

\* The handshake of the first Chat failed and that of the second reached
\* Secure: both entries are in the log and the welcome message is shown.
C35_Witness ==
  /\ failureEntries # {}
  /\ \E i \in 1..Len(logs) :
       logs[i].eventType = "KEY_EXCHANGE" /\ logs[i].severity = "INFO"
  /\ handshakeStatus = "Secure"
  /\ welcomed(messages)

\* The mounted Dashboard is waiting for analyzeLogs.
analysisRunning == dashboard.mounted /\ dashboard.analyzing

\* The Dashboard shows analyzing exactly while one call of analyzeLogs is
\* awaited, and never awaits two.
oneAnalysisAtATime ==
  dashboard.mounted
    => /\ Cardinality(analyses) <= 1
       /\ dashboard.analyzing <=> analyses # {}

\* C36: an analysis that was started ends for the Dashboard that started
\* it: while that Dashboard stays mounted, analyzing becomes false again and
\* an analysis is set, whether generateContent answers, rejects or answers
\* with no text; and while analyzing is true no second analysis is started.
C36_AnalysisEnds ==
  /\ []oneAnalysisAtATime
  /\ [][~(analyses' \subseteq analyses) => (~dashboard.analyzing /\ dashboard'.analyzing)]_vars
  /\ analysisRunning
       ~> (~dashboard.mounted
           \/ (~dashboard.analyzing /\ dashboard.analysis # [kind |-> "null"]))

\* generateContent failed and the analysis ended with the fallback result.
C36_Witness ==
  /\ dashboard.mounted
  /\ ~dashboard.analyzing
  /\ analyses = {}
  /\ dashboard.analysis
       = [score |-> 0, summary |-> "Automated analysis failed. Manual review required.",
          anomalies |-> <<"Analysis service unavailable">>, riskFactors |-> <<>>]
====
